---- MODULE Spec2Model ----
(***************************************************************************)
(* Maso Project API (src/main.py, src/schemas.py): request handlers over a  *)
(* document store.  Every handler is validate -> one storage operation ->   *)
(* shape the response.  A request occupies a slot from the moment its body  *)
(* is validated until its single storage operation returns; the storage     *)
(* operation is atomic (single-document guarantee of the backend).          *)
(*                                                                          *)
(* Optional[T] values are sequences of length <= 1: <<>> is None / absent,  *)
(* <<x>> is the value x.  Money is fixed point: unit_price in 1/1000,       *)
(* tax_rate in 1/100, rounded amounts in 1/100.                             *)
(*                                                                          *)
(* Record constructors list a record's fields in one fixed order            *)
(* throughout the module (the order of a record's fields has no meaning).   *)
(***************************************************************************)
EXTENDS Integers, Sequences, FiniteSets, TLC

VARIABLES db, reachable, store, idCounter, inflight, resp, issued

vars == <<db, reachable, store, idCounter, inflight, resp, issued>>

\* ------------------------------------------------------------------ bounds
MaxRecords == 2      \* documents ever inserted (all collections together)
MaxReq == 2          \* requests in flight at once
MaxItems == 2        \* items of one invoice
MaxInvoices == 1     \* invoices inserted in the invoice-arithmetic specification

\* --------------------------------------------------------------- constants
OidLen == 24         \* hex digits of an ObjectId string
DefaultLimitTasks == 100
DefaultLimit == 50

None == <<>>
Some(x) == <<x>>
Val(o) == o[1]
OrElse(o, d) == IF o = <<>> THEN d ELSE o[1]

\* Python truthiness of an Optional[str]: None and "" are falsy.
Truthy(o) == o # <<>> /\ o[1] # ""

Kinds == {"order", "task", "attachment", "invoice"}
Slots == 1..MaxReq

\* ------------------------------------------------------------- identifiers
HexDigits == <<"0","1","2","3","4","5","6","7","8","9","a","b","c","d","e","f">>

RECURSIVE HexOf(_, _)
HexOf(n, len) ==
    IF len = 0 THEN <<>>
    ELSE Append(HexOf(n \div 16, len - 1), HexDigits[(n % 16) + 1])

\* str(ObjectId): 24 lower-case hex digits.
ObjectIdStr(n) == HexOf(n, OidLen)

DigitVal(c) == CHOOSE i \in 0..15 : HexDigits[i + 1] = c

IsHex(c) == \E i \in 1..16 : HexDigits[i] = c

RECURSIVE HexVal(_)
HexVal(s) ==
    IF s = <<>> THEN 0
    ELSE 16 * HexVal(SubSeq(s, 1, Len(s) - 1)) + DigitVal(s[Len(s)])

\* No check of the string: whatever is not an identifier is read as the first one.
to_object_id_unchecked(id_str) ==
    IF Len(id_str) = OidLen /\ \A i \in 1..Len(id_str) : IsHex(id_str[i])
    THEN [ok |-> TRUE, oid |-> HexVal(id_str)]
    ELSE [ok |-> TRUE, oid |-> 0]

\* to_object_id: ObjectId(id_str) accepts exactly the strings of 24 hex digits;
\* anything else raises and becomes HTTP 400.
to_object_id(id_str) ==
    IF Len(id_str) = OidLen /\ \A i \in 1..Len(id_str) : IsHex(id_str[i])
    THEN [ok |-> TRUE, oid |-> HexVal(id_str)]
    ELSE [ok |-> FALSE, oid |-> 0]

\* ------------------------------------------------------------------ schemas
Priorities == {"low", "normal", "high", "urgent"}
OrderStatuses == {"draft", "scheduled", "in_progress", "completed", "invoiced", "cancelled"}
TaskStatuses == {"queued", "assigned", "in_progress", "paused", "done", "rejected"}

\* Order: customer required; priority and status are Literals with defaults.
OrderValid(b) ==
    /\ b.customer # None
    /\ OrElse(b.priority, "normal") \in Priorities
    /\ OrElse(b.status, "draft") \in OrderStatuses

OrderDump(b) ==
    [customer |-> Val(b.customer),
     priority |-> OrElse(b.priority, "normal"),
     status   |-> OrElse(b.status, "draft"),
     notes    |-> b.notes]

\* Task: order_id and name required; status a Literal, default "queued";
\* estimated_minutes >= 0 when given.
TaskValid(b) ==
    /\ b.order_id # None
    /\ b.name # None
    /\ OrElse(b.status, "queued") \in TaskStatuses
    /\ (b.estimated_minutes # None => Val(b.estimated_minutes) >= 0)

TaskDump(b) ==
    [status |-> OrElse(b.status, "queued"), notes |-> b.notes,
     order_id |-> Val(b.order_id), name |-> Val(b.name),
     estimated_minutes |-> b.estimated_minutes]

\* Attachment: order_id and filename required; size_bytes >= 0 when given.
AttachmentValid(b) ==
    /\ b.order_id # None
    /\ b.filename # None
    /\ (b.size_bytes # None => Val(b.size_bytes) >= 0)

AttachmentDump(b) ==
    [order_id |-> Val(b.order_id),
     filename |-> Val(b.filename),
     size_bytes |-> b.size_bytes]

\* InvoiceItem: quantity >= 1, unit_price >= 0.
InvoiceItemValid(i) == i.quantity >= 1 /\ i.unit_price >= 0

\* Invoice: order_id required; subtotal, total >= 0 (default 0);
\* 0 <= tax_rate <= 1 (default 0), here in hundredths.
InvoiceValid(b) ==
    /\ b.order_id # None
    /\ \A k \in 1..Len(b.items) : InvoiceItemValid(b.items[k])
    /\ OrElse(b.subtotal, 0) >= 0
    /\ OrElse(b.tax_rate, 0) >= 0 /\ OrElse(b.tax_rate, 0) <= 100
    /\ OrElse(b.total, 0) >= 0

InvoiceDump(b) ==
    [order_id |-> Val(b.order_id),
     items    |-> b.items,
     subtotal |-> OrElse(b.subtotal, 0),
     tax_rate |-> OrElse(b.tax_rate, 0),
     total    |-> OrElse(b.total, 0)]

\* StatusUpdate: status any string, required; notes optional.
StatusUpdateValid(p) == p.status # None

\* ------------------------------------------------------------- arithmetic
\* round(x, 2) on an amount x given as n / unit, unit a multiple of 100:
\* the nearest hundredth, ties to the even one.  The result is in hundredths.
Round2(n, unit) ==
    LET k == unit \div 100
        q == n \div k
        r == n % k
    IN  IF 2 * r < k THEN q
        ELSE IF 2 * r > k THEN q + 1
        ELSE IF q % 2 = 0 THEN q ELSE q + 1

RECURSIVE SumItems(_)
\* sum(i.quantity * i.unit_price for i in items), in thousandths.
SumItems(items) ==
    IF items = <<>> THEN 0
    ELSE SumItems(Tail(items)) + Head(items).quantity * Head(items).unit_price

\* -------------------------------------------------------- request inputs
\* Instants utcnow() returns.
Times == {"t1"}

\* Path parameters: the string of every identifier the store can hold, of one
\* it never holds, and strings that are no identifier.
TaskIdStrings ==
    {ObjectIdStr(n) : n \in 0..MaxRecords} \cup {<<"x", "y", "z">>, HexOf(0, OidLen - 1)}

Cut == [quantity |-> 3, unit_price |-> 10000]

\* Inputs of the specification of all handlers: per schema one body that
\* passes validation and one that fails it.
OrderBodies ==
    [customer : {None, Some("acme")}, priority : {None}, status : {None}, notes : {None}]

TaskBodies ==
    [status : {None}, notes : {None}, order_id : {None, Some("o1")}, name : {Some("cut")},
     estimated_minutes : {None}]

AttachmentBodies ==
    [order_id : {Some("o1")}, filename : {Some("a.dxf")}, size_bytes : {None, Some(-1)}]

InvoiceBodies ==
    [order_id : {Some("o1")}, items : {<<Cut>>}, subtotal : {None},
     tax_rate : {Some(10), Some(101)}, total : {Some(7)}]

StatusPayloads == [status : {None, Some("paused")}, notes : {None, Some("n1")}]

FilterValues == {None, Some("o1")}
LimitValues == {None, Some(1)}

\* Inputs of the task specification.
TaskBodiesT ==
    [status : {None, Some("done"), Some("bogus")}, notes : {None, Some("n0")},
     order_id : {None, Some("o1")}, name : {Some("cut")},
     estimated_minutes : {None, Some(-1)}]

StatusPayloadsT ==
    [status : {None, Some("paused"), Some("bogus")}, notes : {None, Some(""), Some("n1")}]

\* Inputs of the concurrent specifications.
StatusPayloadsR == [status : {Some("paused"), Some("rejected")}, notes : {None}]

TaskBodiesR ==
    [status : {Some("done")}, notes : {None}, order_id : {Some("o1")},
     name : {Some("cut")}, estimated_minutes : {None}]

\* Inputs of the listing specification.
TaskBodiesL ==
    [status : {None, Some("done")}, notes : {None}, order_id : {Some(""), Some("o1")},
     name : {Some("cut")}, estimated_minutes : {None}]

AttachmentBodiesL ==
    [order_id : {Some(""), Some("o1")}, filename : {Some("a.dxf")}, size_bytes : {None}]

FilterValuesL == {None, Some(""), Some("o1"), Some("o2")}
StatusFilterValuesL == {None, Some(""), Some("done"), Some("paused")}
LimitValuesL == {None, Some(0), Some(1)}

\* Inputs of the invoice specification: items whose sums fall on, below and
\* above half a hundredth, and two items that fail validation.
ItemChoices ==
    {[quantity |-> 1, unit_price |-> 5], [quantity |-> 3, unit_price |-> 335], Cut}

BadItems == {[quantity |-> 0, unit_price |-> 5], [quantity |-> 1, unit_price |-> -1]}

RECURSIVE SeqsUpTo(_, _)
SeqsUpTo(S, n) ==
    IF n = 0 THEN {<<>>}
    ELSE LET shorter == SeqsUpTo(S, n - 1)
         IN  shorter \cup {Append(q, x) : q \in shorter, x \in S}

InvoiceBodiesI ==
    [order_id : {Some("o1")},
     items : SeqsUpTo(ItemChoices, MaxItems) \cup {<<Cut, x>> : x \in BadItems},
     subtotal : {None, Some(7)}, tax_rate : {None, Some(15), Some(100), Some(101)},
     total : {Some(9)}]

\* ------------------------------------------------------------- responses
Idle == [op |-> "idle"]

Response(op, code, body, ops, req) ==
    [op |-> op, code |-> code, body |-> body, ops |-> ops, req |-> req, overlap |-> {}]

NoResponse == Response("none", 0, <<>>, 0, <<>>)

Pending(s) == inflight[s] # Idle

PendingCreates == Cardinality({s \in Slots : Pending(s) /\ inflight[s].call.fn = "create_document"})

\* The storage handle exists and the backend answers.
Available == db = "up" /\ reachable

\* ------------------------------------------------------------------ init
Init ==
    /\ db \in {"none", "up"}
    /\ reachable = TRUE
    /\ store = [k \in Kinds |-> <<>>]
    /\ idCounter = 0
    /\ inflight = [s \in Slots |-> Idle]
    /\ resp = NoResponse
    /\ issued = <<>>

\* A request is answered without reaching storage.
Reply(op, code, body, req) ==
    /\ resp' = Response(op, code, body, 0, req)
    /\ UNCHANGED <<db, reachable, store, idCounter, inflight, issued>>

\* The handler has validated its input and issued its storage call.
Call(s, op, req, call) ==
    /\ inflight' = [inflight EXCEPT ![s] = [op |-> op, req |-> req, overlap |-> {},
                                            call |-> call]]
    /\ resp' = NoResponse
    /\ UNCHANGED <<db, reachable, store, idCounter, issued>>

\* ---------------------------------------------------------------- storage
Min(a, b) == IF a < b THEN a ELSE b

Take(seq, n) == SubSeq(seq, 1, Min(n, Len(seq)))

\* A filter_dict is a set of <<field, value>> pairs, all of which must match.
Matches(doc, filter_dict) == \A p \in filter_dict : doc[p[1]] = p[2]

\* The document as stored: the record, its generated _id, and no updated_at
\* (None) until an update sets one.
Stored(kind, oid, doc) ==
    CASE kind = "order" ->
            [customer |-> doc.customer, priority |-> doc.priority, status |-> doc.status,
             notes |-> doc.notes, _id |-> oid, updated_at |-> None]
      [] kind = "task" ->
            [status |-> doc.status, notes |-> doc.notes, order_id |-> doc.order_id,
             name |-> doc.name, estimated_minutes |-> doc.estimated_minutes, _id |-> oid,
             updated_at |-> None]
      [] kind = "attachment" ->
            [order_id |-> doc.order_id, filename |-> doc.filename,
             size_bytes |-> doc.size_bytes, _id |-> oid, updated_at |-> None]
      [] kind = "invoice" ->
            [order_id |-> doc.order_id, items |-> doc.items, subtotal |-> doc.subtotal,
             tax_rate |-> doc.tax_rate, total |-> doc.total, _id |-> oid,
             updated_at |-> None]

\* create(kind, record) -> id: one record persisted under a newly generated
\* identifier, or the service-unavailable failure.
create_document(kind, doc) ==
    IF db = "none" THEN [store |-> store, ok |-> FALSE, oid |-> <<>>, ops |-> 0]
    ELSE IF ~reachable THEN [store |-> store, ok |-> FALSE, oid |-> <<>>, ops |-> 1]
    ELSE [store |-> [store EXCEPT ![kind] = Append(@, Stored(kind, idCounter, doc))],
          ok |-> TRUE, oid |-> ObjectIdStr(idCounter), ops |-> 1]

\* query(kind, filter, limit): up to limit records of the collection that
\* match the filter, in insertion order, or the service-unavailable failure.
get_documents(kind, filter_dict, limit) ==
    IF db = "none" THEN [ok |-> FALSE, ops |-> 0, docs |-> <<>>]
    ELSE IF ~reachable THEN [ok |-> FALSE, ops |-> 1, docs |-> <<>>]
    ELSE [ok |-> TRUE, ops |-> 1,
          docs |-> Take(SelectSeq(store[kind], LAMBDA d : Matches(d, filter_dict)), limit)]

\* d["id"] = str(d.pop("_id"))
ShapeDoc(d) ==
    [f \in (DOMAIN d \ {"_id"}) \cup {"id"} |->
        IF f = "id" THEN ObjectIdStr(d._id) ELSE d[f]]

ShapeDocs(docs) == [i \in 1..Len(docs) |-> ShapeDoc(docs[i])]

\* The check of the storage handle left out.
DbCheckSkipped == FALSE

\* if db is None: the storage handle was never initialised.
DbIsNone == db = "none"

\* The update sent to the collection of orders.
UpdateCollectionOrder == "order"

\* The collection update_task_status writes to.
UpdateCollection == "task"

\* {"$set": set} applied to a document: status and updated_at, and notes
\* when set has notes.
Applied(d, set) ==
    [d EXCEPT !.status = set.status,
              !.updated_at = Some(set.updated_at),
              !.notes = IF "notes" \in DOMAIN set THEN set.notes ELSE @]

\* The filter also asks for a task that is not done or rejected: a finished
\* task matches no update.
update_one_unfinished(st, coll, oid, set) ==
    LET docs == st[coll]
        hit  == {i \in 1..Len(docs) :
                    docs[i]._id = oid /\ docs[i].status \notin {"done", "rejected"}}
    IN  IF hit = {} THEN [store |-> st, matched_count |-> 0]
        ELSE LET i == CHOOSE j \in hit : \A k \in hit : j <= k
             IN  [store |-> [st EXCEPT ![coll] = [docs EXCEPT ![i] = Applied(docs[i], set)]],
                  matched_count |-> 1]

\* update_one(..., upsert=True): a document is inserted when none matches.
update_one_upsert(st, coll, oid, set) ==
    LET docs == st[coll]
        hit  == {i \in 1..Len(docs) : docs[i]._id = oid}
    IN  IF hit = {}
        THEN [store |-> [st EXCEPT ![coll] = Append(docs, Applied(
                  [status |-> "", notes |-> None, order_id |-> "", name |-> "",
                   estimated_minutes |-> None, _id |-> oid, updated_at |-> None], set))],
              matched_count |-> 0]
        ELSE LET i == CHOOSE j \in hit : \A k \in hit : j <= k
             IN  [store |-> [st EXCEPT ![coll] = [docs EXCEPT ![i] = Applied(docs[i], set)]],
                  matched_count |-> 1]

\* db[coll].update_one({"_id": _id}, {"$set": set}): the first document with
\* that _id gets the fields of set; no upsert.
update_one(st, coll, oid, set) ==
    LET docs == st[coll]
        hit  == {i \in 1..Len(docs) : docs[i]._id = oid}
    IN  IF hit = {} THEN [store |-> st, matched_count |-> 0]
        ELSE LET i == CHOOSE j \in hit : \A k \in hit : j <= k
             IN  [store |-> [st EXCEPT ![coll] = [docs EXCEPT ![i] = Applied(docs[i], set)]],
                  matched_count |-> 1]

\* The "$set" document of update_task_status: status and updated_at always,
\* notes when payload.notes is truthy.
UpdateSet(payload, now) ==
    IF Truthy(payload.notes)
    THEN [status |-> Val(payload.status), notes |-> payload.notes, updated_at |-> now]
    ELSE [status |-> Val(payload.status), updated_at |-> now]

\* filter_dict of list_tasks: a parameter enters it when it is truthy.
TaskFilter(order_id, status) ==
    (IF Truthy(order_id) THEN {<<"order_id", Val(order_id)>>} ELSE {})
        \cup (IF Truthy(status) THEN {<<"status", Val(status)>>} ELSE {})

\* filter_dict of list_attachments and list_invoices.
OrderFilter(order_id) ==
    IF Truthy(order_id) THEN {<<"order_id", Val(order_id)>>} ELSE {}

\* The total taken from the rounded subtotal instead of the exact sum.
InvoicePayloadRoundedFirst(invoice) ==
    LET subtotal == Round2(SumItems(invoice.items), 1000)
    IN  [invoice EXCEPT !.subtotal = subtotal,
                        !.total = Round2(subtotal * (100 + invoice.tax_rate), 10000)]

\* create_invoice: subtotal and total recomputed from the items and written
\* over the dumped payload, both rounded to 2 places.
InvoicePayload(invoice) ==
    LET subtotal == SumItems(invoice.items)
        total    == subtotal * (100 + invoice.tax_rate)
    IN  [invoice EXCEPT !.subtotal = Round2(subtotal, 1000),
                        !.total = Round2(total, 100000)]

\* ---------------------------------------------------------------- handlers
\* The storage call of slot s returns and the handler answers.
Finish(s, code, body, ops, newStore, newIssued, newInflight) ==
    /\ resp' = [Response(inflight[s].op, code, body, ops, inflight[s].req)
                    EXCEPT !.overlap = inflight[s].overlap]
    /\ store' = newStore
    /\ issued' = newIssued
    /\ idCounter' = idCounter + (Len(newIssued) - Len(issued))
    /\ inflight' = [newInflight EXCEPT ![s] = Idle]
    /\ UNCHANGED <<db, reachable>>

\* POST bodies are validated against the schema before the handler runs.
Create(s, op, kind, body, valid, doc) ==
    /\ ~Pending(s)
    /\ idCounter + PendingCreates < MaxRecords
    /\ IF ~valid THEN Reply(op, 422, <<>>, body)
       ELSE Call(s, op, body, [fn |-> "create_document", doc |-> doc, kind |-> kind])

\* Every other create in flight learns the identifier issued while it waited.
NoteIssued(s, oid) ==
    [t \in Slots |->
        IF t # s /\ Pending(t) /\ inflight[t].call.fn = "create_document"
        THEN [inflight[t] EXCEPT !.overlap = @ \cup {oid}]
        ELSE inflight[t]]

\* The identifier cut one digit short.
IdTruncated(oid, doc) == [id |-> SubSeq(oid, 1, Len(oid) - 1)]

\* return {"id": oid}
IdOnly(oid, doc) == [id |-> oid]

\* return {"id": oid, "subtotal": payload["subtotal"], "total": payload["total"]}
IdAndTotals(oid, doc) == [subtotal |-> doc.subtotal, total |-> doc.total, id |-> oid]

\* oid = create_document(kind, doc), then the handler's return.
CreateReturn(s, op) ==
    /\ Pending(s) /\ inflight[s].op = op
    /\ LET c == inflight[s].call
           r == create_document(c.kind, c.doc)
           body == IF op = "create_invoice" THEN IdAndTotals(r.oid, c.doc)
                   ELSE IdOnly(r.oid, c.doc)
       IN  IF r.ok
           THEN Finish(s, 200, body, r.ops, r.store, Append(issued, r.oid),
                       NoteIssued(s, r.oid))
           ELSE Finish(s, 500, <<>>, r.ops, store, issued, inflight)

create_order(s, bodies) ==
    \/ \E b \in bodies :
          Create(s, "create_order", "order", b, OrderValid(b), OrderDump(b))
    \/ CreateReturn(s, "create_order")

create_task(s, bodies) ==
    \/ \E b \in bodies :
          Create(s, "create_task", "task", b, TaskValid(b), TaskDump(b))
    \/ CreateReturn(s, "create_task")

create_attachment(s, bodies) ==
    \/ \E b \in bodies :
          Create(s, "create_attachment", "attachment", b, AttachmentValid(b), AttachmentDump(b))
    \/ CreateReturn(s, "create_attachment")

create_invoice(s, bodies) ==
    \/ \E b \in bodies :
          Create(s, "create_invoice", "invoice", b, InvoiceValid(b),
                 InvoicePayload(InvoiceDump(b)))
    \/ CreateReturn(s, "create_invoice")

\* docs = get_documents(kind, filter_dict, limit), each shaped for JSON.
List(s, op, kind, req, filter_dict, limit) ==
    /\ ~Pending(s)
    /\ Call(s, op, req, [fn |-> "get_documents", filter_dict |-> filter_dict,
                         kind |-> kind, limit |-> limit])

ListReturn(s, op) ==
    /\ Pending(s) /\ inflight[s].op = op
    /\ LET c == inflight[s].call
           r == get_documents(c.kind, c.filter_dict, c.limit)
       IN  IF r.ok
           THEN Finish(s, 200, ShapeDocs(r.docs), r.ops, store, issued, inflight)
           ELSE Finish(s, 500, <<>>, r.ops, store, issued, inflight)

list_orders(s, limits) ==
    \/ \E limit \in limits :
          List(s, "list_orders", "order", [limit |-> limit], {}, OrElse(limit, DefaultLimit))
    \/ ListReturn(s, "list_orders")

list_tasks(s, order_ids, statuses, limits) ==
    \/ \E order_id \in order_ids, status \in statuses, limit \in limits :
          List(s, "list_tasks", "task",
               [status |-> status, order_id |-> order_id, limit |-> limit],
               TaskFilter(order_id, status), OrElse(limit, DefaultLimitTasks))
    \/ ListReturn(s, "list_tasks")

list_attachments(s, order_ids, limits) ==
    \/ \E order_id \in order_ids, limit \in limits :
          List(s, "list_attachments", "attachment",
               [order_id |-> order_id, limit |-> limit],
               OrderFilter(order_id), OrElse(limit, DefaultLimit))
    \/ ListReturn(s, "list_attachments")

list_invoices(s, order_ids, limits) ==
    \/ \E order_id \in order_ids, limit \in limits :
          List(s, "list_invoices", "invoice",
               [order_id |-> order_id, limit |-> limit],
               OrderFilter(order_id), OrElse(limit, DefaultLimit))
    \/ ListReturn(s, "list_invoices")

\* Every other update_one in flight on the same task learns that this one
\* was applied while it waited.
NoteOverlap(s, oid, status) ==
    [t \in Slots |->
        IF t # s /\ Pending(t) /\ inflight[t].call.fn = "update_one" /\ inflight[t].call.oid = oid
        THEN [inflight[t] EXCEPT !.overlap = @ \cup {status}]
        ELSE inflight[t]]

update_task_status(s, task_ids, payloads) ==
    \/ \E task_id \in task_ids :
          LET id == to_object_id(task_id)
          IN  \E payload \in payloads, now \in Times :
                LET req == [payload |-> payload, task_id |-> task_id]
                IN  /\ ~Pending(s)
                    /\ IF ~StatusUpdateValid(payload)
                       THEN Reply("update_task_status", 422, <<>>, req)
                       ELSE IF DbIsNone THEN Reply("update_task_status", 500, <<>>, req)
                       ELSE IF ~id.ok THEN Reply("update_task_status", 400, <<>>, req)
                       ELSE Call(s, "update_task_status", req,
                                 [oid |-> id.oid, fn |-> "update_one",
                                  set |-> UpdateSet(payload, now)])
    \/ /\ Pending(s) /\ inflight[s].op = "update_task_status"
       /\ LET c == inflight[s].call
              r == update_one(store, UpdateCollection, c.oid, c.set)
          IN  IF ~reachable THEN Finish(s, 500, <<>>, 1, store, issued, inflight)
              ELSE IF r.matched_count = 0 THEN Finish(s, 404, <<>>, 1, r.store, issued, inflight)
              ELSE Finish(s, 200, [ok |-> TRUE], 1, r.store, issued,
                          NoteOverlap(s, c.oid, c.set.status))

\* ------------------------------------------------------------ environment
\* The backend becomes unreachable or reachable again.
BackendFlip ==
    /\ db = "up"
    /\ reachable' = ~reachable
    /\ resp' = NoResponse
    /\ UNCHANGED <<db, store, idCounter, inflight, issued>>

\* ---------------------------------------------------------- specifications
\* One request at a time: the handlers are coroutines that never await, so
\* the event loop of the single server process runs each to its end.
Next ==
    \/ create_order(1, OrderBodies)
    \/ create_task(1, TaskBodies)
    \/ create_attachment(1, AttachmentBodies)
    \/ create_invoice(1, InvoiceBodies)
    \/ list_orders(1, LimitValues)
    \/ list_tasks(1, FilterValues, {None}, LimitValues)
    \/ list_attachments(1, FilterValues, LimitValues)
    \/ list_invoices(1, FilterValues, LimitValues)
    \/ update_task_status(1, TaskIdStrings, StatusPayloads)
    \/ BackendFlip

Spec == Init /\ [][Next]_vars

\* Tasks alone, with the inputs that exercise the Task and StatusUpdate schemas.
NextTask ==
    \/ create_task(1, TaskBodiesT)
    \/ update_task_status(1, TaskIdStrings, StatusPayloadsT)
    \/ BackendFlip

SpecTask == Init /\ [][NextTask]_vars

\* Listing, over collections whose records differ in the filtered fields.
InitUp == Init /\ db = "up"

NextList ==
    \/ create_task(1, TaskBodiesL)
    \/ create_attachment(1, AttachmentBodiesL)
    \/ list_tasks(1, FilterValuesL, StatusFilterValuesL, LimitValuesL)
    \/ list_attachments(1, FilterValuesL, LimitValuesL)

SpecList == InitUp /\ [][NextList]_vars

\* Requests of several server processes against one backend: the storage
\* calls of different requests interleave.  Creates on all four collections.
NextCreateRace ==
    \E s \in Slots :
        \/ create_order(s, {b \in OrderBodies : OrderValid(b)})
        \/ create_task(s, TaskBodiesR)
        \/ create_attachment(s, {b \in AttachmentBodies : AttachmentValid(b)})
        \/ create_invoice(s, {b \in InvoiceBodies : InvoiceValid(b)})

SpecCreateRace == InitUp /\ [][NextCreateRace]_vars

\* Interleaved updates of one stored task (created done) and of an
\* identifier no task has.
InitOneTask ==
    /\ db = "up"
    /\ reachable = TRUE
    /\ store = [k \in Kinds |->
                  IF k = "task"
                  THEN <<Stored("task", 0, TaskDump(CHOOSE b \in TaskBodiesR : TRUE))>>
                  ELSE <<>>]
    /\ idCounter = 1
    /\ inflight = [s \in Slots |-> Idle]
    /\ resp = NoResponse
    /\ issued = <<ObjectIdStr(0)>>

NextUpdateRace ==
    \/ \E s \in Slots :
          update_task_status(s, {ObjectIdStr(0), ObjectIdStr(1)}, StatusPayloadsR)
    \/ BackendFlip

SpecUpdateRace == InitOneTask /\ [][NextUpdateRace]_vars

\* Invoice arithmetic.
NextInvoice ==
    /\ idCounter + PendingCreates < MaxInvoices \/ Pending(1)
    /\ create_invoice(1, InvoiceBodiesI)

SpecInvoice == InitUp /\ [][NextInvoice]_vars

\* ------------------------------------------------------------------ claims
CreateOps == {"create_order", "create_task", "create_attachment", "create_invoice"}
ListOps == {"list_orders", "list_tasks", "list_attachments", "list_invoices"}

Range(f) == {f[i] : i \in DOMAIN f}

\* The stored documents of a collection whose identifier prints as id_str.
DocsWithId(kind, id_str) == {d \in Range(store[kind]) : ObjectIdStr(d._id) = id_str}

\* Sum of quantity * unit_price over the items, in thousandths.
ItemsTotal(items) ==
    LET RECURSIVE upto(_)
        upto(i) == IF i = 0 THEN 0
                   ELSE upto(i - 1) + items[i].quantity * items[i].unit_price
    IN  upto(Len(items))

Abs(x) == IF x < 0 THEN -x ELSE x

\* c hundredths is n / unit rounded to 2 places: no hundredth is nearer, and
\* of two equally near ones c is the even one.
IsRounded(c, n, unit) ==
    LET k == unit \div 100
        e == Abs(c * k - n)
    IN  2 * e <= k /\ (2 * e = k => c % 2 = 0)

HexChars == {"0","1","2","3","4","5","6","7","8","9","a","b","c","d","e","f"}

\* A structurally valid identifier: 24 hex digits.
IsObjectIdString(str) == Len(str) = 24 /\ \A i \in 1..Len(str) : str[i] \in HexChars

\* The last response answers an Update Task Status request whose body passed validation.
UpdateAnswered == resp.op = "update_task_status" /\ resp.req.payload.status # None

\* The storage call of an Update Task Status request in slot s returns in this step.
UpdateReturns(s) ==
    /\ inflight[s] # Idle /\ inflight[s].op = "update_task_status"
    /\ inflight'[s] = Idle

\* C2 as claimed: a malformed task_id fails with 400 and a well-formed one that
\* matches no task with 404, both decided before any storage operation, in
\* every storage state.
C2_Original ==
    UpdateAnswered =>
        /\ ~IsObjectIdString(resp.req.task_id) => (resp.code = 400 /\ resp.ops = 0)
        /\ (IsObjectIdString(resp.req.task_id) /\ DocsWithId("task", resp.req.task_id) = {})
              => (resp.code = 404 /\ resp.ops = 0)

\* C2 amended: with storage uninitialized every update fails with 500 before
\* any storage operation; with storage initialized a malformed task_id fails
\* with 400 before any storage operation, and a well-formed one that matches
\* no task issues the one update_one and fails with 404 when the backend
\* answers, with 500 when it does not.
C2_Amended ==
    UpdateAnswered =>
        /\ db = "none" => (resp.code = 500 /\ resp.ops = 0)
        /\ (db = "up" /\ ~IsObjectIdString(resp.req.task_id))
              => (resp.code = 400 /\ resp.ops = 0)
        /\ (db = "up" /\ IsObjectIdString(resp.req.task_id)
                /\ DocsWithId("task", resp.req.task_id) = {})
              => (resp.ops = 1 /\ resp.code = IF reachable THEN 404 ELSE 500)

\* An update of an identifier no task has was answered 404 by a store that holds tasks.
C2_Witness ==
    /\ UpdateAnswered /\ resp.code = 404 /\ resp.ops = 1
    /\ store["task"] # <<>>

\* C3: every stored task has a status of the allowed set, and an update whose
\* status is outside the set is not applied.
C3_StatusAllowed ==
    /\ \A d \in Range(store["task"]) : d.status \in TaskStatuses
    /\ (UpdateAnswered /\ Val(resp.req.payload.status) \notin TaskStatuses) => resp.code # 200

\* C10: after a successful update the task's notes are the payload's notes when
\* the payload has notes (the empty string included) and are unchanged when
\* it has none; updated_at is set.
C10_NotesFollowPayload ==
    [][\A s \in Slots :
          (UpdateReturns(s) /\ resp'.code = 200) =>
              \A i \in 1..Len(store["task"]) :
                  store["task"][i]._id = inflight[s].call.oid =>
                      LET old == store["task"][i]
                          new == store'["task"][i]
                          notes == inflight[s].req.payload.notes
                      IN  /\ new.notes = IF notes # None THEN notes ELSE old.notes
                          /\ new.updated_at = Some(inflight[s].call.set.updated_at)]_vars

\* An Update Task Status request is answered in this step.
UpdateStep ==
    \/ \E s \in Slots : UpdateReturns(s)
    \/ resp'.op = "update_task_status" /\ resp' # resp

UpdatedFields == {"status", "notes", "updated_at"}

\* C4: Update Task Status leaves the number of records of every collection as
\* it was; it changes at most the one task it matches, and of that task only
\* status, notes and updated_at.
C4_UpdateFrame ==
    [][UpdateStep =>
          /\ \A k \in Kinds :
                /\ Len(store'[k]) = Len(store[k])
                /\ \A i \in 1..Len(store[k]) :
                      store'[k][i] # store[k][i] =>
                          /\ k = "task" /\ resp'.code = 200
                          /\ ObjectIdStr(store[k][i]._id) = resp'.req.task_id
                          /\ DOMAIN store'[k][i] \subseteq DOMAIN store[k][i] \cup UpdatedFields
                          /\ \A f \in DOMAIN store[k][i] \ UpdatedFields :
                                store'[k][i][f] = store[k][i][f]
          /\ Cardinality({i \in 1..Len(store["task"]) :
                            store'["task"][i] # store["task"][i]}) <= 1]_vars

\* One of two stored tasks was updated.
C4_Witness ==
    /\ UpdateAnswered /\ resp.code = 200
    /\ Len(store["task"]) = 2
    /\ \E d \in Range(store["task"]) : d.updated_at = None

\* The request of the last response passed the validation of its schema.
RequestValid ==
    CASE resp.op = "create_order" -> OrderValid(resp.req)
      [] resp.op = "create_task" -> TaskValid(resp.req)
      [] resp.op = "create_attachment" -> AttachmentValid(resp.req)
      [] resp.op = "create_invoice" -> InvoiceValid(resp.req)
      [] resp.op = "update_task_status" -> StatusUpdateValid(resp.req.payload)
      [] OTHER -> TRUE

\* C6 as claimed: with the storage backend unreachable or uninitialized every
\* request ends in 500, for every input.
C6_Original == (resp.op # "none" /\ ~Available) => resp.code = 500

\* C6 amended: with the storage backend unreachable or uninitialized, a
\* request whose body fails validation ends in 422, an update with a malformed
\* task_id against an initialized but unreachable backend ends in 400, and
\* every other create, list and update request ends in 500.
C6_Amended ==
    (resp.op # "none" /\ ~Available) =>
        resp.code =
            IF ~RequestValid THEN 422
            ELSE IF resp.op = "update_task_status" /\ db = "up"
                        /\ ~IsObjectIdString(resp.req.task_id) THEN 400
            ELSE 500

\* An update of a stored task was answered 500 because the backend did not answer.
C6_Witness ==
    /\ db = "up" /\ ~reachable
    /\ UpdateAnswered /\ resp.code = 500
    /\ DocsWithId("task", resp.req.task_id) # {}

\* C7: no step removes a record or changes its identifier, and the only
\* records a step changes are tasks, changed by Update Task Status.
C7_Immutable ==
    [][\A k \in Kinds :
          /\ Len(store'[k]) >= Len(store[k])
          /\ \A i \in 1..Len(store[k]) :
                /\ store'[k][i]._id = store[k][i]._id
                /\ store'[k][i] # store[k][i] =>
                      (k = "task" /\ \E s \in Slots : UpdateReturns(s))]_vars

\* A task was updated while a record of another collection is stored.
C7_Witness ==
    /\ UpdateAnswered /\ resp.code = 200
    /\ \E k \in Kinds \ {"task"} : store[k] # <<>>

\* C5: every listed record has exactly the supplied value in each filtered
\* field, and at most limit records are listed.
C5_FilterExact ==
    (resp.op \in ListOps /\ resp.code = 200) =>
        /\ \A i \in 1..Len(resp.body) :
              /\ ("order_id" \in DOMAIN resp.req /\ resp.req.order_id # None)
                    => resp.body[i].order_id = Val(resp.req.order_id)
              /\ ("status" \in DOMAIN resp.req /\ resp.req.status # None)
                    => resp.body[i].status = Val(resp.req.status)
        /\ resp.req.limit # None => Len(resp.body) <= Val(resp.req.limit)

\* The storage call of a create request in slot s returns in this step.
CreateReturns(s) ==
    /\ inflight[s] # Idle /\ inflight[s].op \in CreateOps
    /\ inflight'[s] = Idle

\* C8: the identifier a successful create returns was returned by no earlier
\* create, also when creates interleave, and the create adds exactly one
\* record, the one with that identifier, to exactly one collection.
C8_FreshId ==
    [][\A s \in Slots :
          (CreateReturns(s) /\ resp'.code = 200) =>
              /\ resp'.body.id \notin Range(issued)
              /\ \E k \in Kinds :
                    /\ Len(store'[k]) = Len(store[k]) + 1
                    /\ SubSeq(store'[k], 1, Len(store[k])) = store[k]
                    /\ ObjectIdStr(store'[k][Len(store'[k])]._id) = resp'.body.id
                    /\ \A j \in Kinds \ {k} : store'[j] = store[j]]_vars

\* Two creates on different collections were in flight together; the one that
\* returned second got an identifier other than the first one's.
C8_Witness ==
    /\ resp.op \in CreateOps /\ resp.code = 200
    /\ resp.overlap # {} /\ resp.body.id \notin resp.overlap
    /\ Len(issued) = 2
    /\ Cardinality({k \in Kinds : store[k] # <<>>}) = 2

\* C9: with the backend answering, an update of a stored task to a status of
\* the allowed set succeeds with {ok: true} whatever the task's status is, and
\* the stored status is then the requested one; when updates of the same task
\* interleave the stored status is that of one of them.
C9_AnyTransition ==
    [][\A s \in Slots :
          (/\ UpdateReturns(s) /\ reachable
           /\ Val(inflight[s].req.payload.status) \in TaskStatuses
           /\ \E i \in 1..Len(store["task"]) : store["task"][i]._id = inflight[s].call.oid)
          => /\ resp'.code = 200 /\ resp'.body = [ok |-> TRUE]
             /\ \A i \in 1..Len(store["task"]) :
                   store["task"][i]._id = inflight[s].call.oid =>
                       /\ store'["task"][i].status = Val(inflight[s].req.payload.status)
                       /\ store'["task"][i].status
                             \in {Val(resp'.req.payload.status)} \cup resp'.overlap]_vars

\* Two updates of one task to different statuses were in flight together and
\* both were applied; the task has the status of the later one.
C9_Witness ==
    /\ UpdateAnswered /\ resp.code = 200
    /\ resp.overlap # {} /\ Val(resp.req.payload.status) \notin resp.overlap
    /\ \E d \in DocsWithId("task", resp.req.task_id) :
          d.status = Val(resp.req.payload.status)

====
